---- MODULE Spec2Model ----
(***************************************************************************)
(* Model of ganapathi.py, the Google Ads keyword dashboard: one run of the *)
(* script over the uploaded reports (load, merge, normalise, filter,       *)
(* keyword summary, keyword detail, gap analysis, mapping, AI insights),   *)
(* and the text cleaner clean_text on its own.                             *)
(*                                                                         *)
(* A string is a sequence of one-character strings; a missing cell (NaN)   *)
(* is the value NaN.  Tables are sequences of rows, a row is a function    *)
(* from column names to cells.  The columns "Match type" and "Ad group"    *)
(* are carried by no computation of the script and are left out.           *)
(***************************************************************************)
EXTENDS Integers, Sequences, FiniteSets, TLC

\* ------------------------------------------------------------------------
\* Bounds
\* ------------------------------------------------------------------------
\* longest input string given to clean_text on its own
MaxLen == 4
\* most applications of clean_text in a row
MaxApply == 2

\* ------------------------------------------------------------------------
\* Strings
\* ------------------------------------------------------------------------
\* the missing value (pandas NaN); no string equals it
NaN == <<"NaN">>

Chars == {"a", "A", "b", " ", "[", "]", "\"", "+"}

Whitespace == {" "}

BracketChars == {"[", "]", "\""}

\* str.lower() on one character
LowerChar(c) == IF c = "A" THEN "a" ELSE c

Lower(s) == [i \in 1..Len(s) |-> LowerChar(s[i])]

RECURSIVE LStrip(_, _)
LStrip(s, set) ==
    IF s # <<>> /\ Head(s) \in set THEN LStrip(Tail(s), set) ELSE s

RECURSIVE RStrip(_, _)
RStrip(s, set) ==
    IF s # <<>> /\ s[Len(s)] \in set
    THEN RStrip(SubSeq(s, 1, Len(s) - 1), set)
    ELSE s

\* str.strip(): whitespace off both ends
Strip(s) == RStrip(LStrip(s, Whitespace), Whitespace)

\* re.sub(r'^[\[\]\"]+|[\[\]\"]+$', '', x): the run of bracket/quote
\* characters at the very start and the run at the very end
StripBrackets(s) == RStrip(LStrip(s, BracketChars), BracketChars)

\* x.replace("+", "")
RECURSIVE RemovePlus(_)
RemovePlus(s) ==
    IF s = <<>> THEN <<>>
    ELSE IF Head(s) = "+" THEN RemovePlus(Tail(s))
    ELSE <<Head(s)>> \o RemovePlus(Tail(s))

\* re.sub(r'\s+', ' ', x): every run of whitespace becomes one space
RECURSIVE CollapseSpaces(_)
CollapseSpaces(s) ==
    IF s = <<>> THEN <<>>
    ELSE IF Head(s) \in Whitespace
         THEN <<" ">> \o CollapseSpaces(LStrip(s, Whitespace))
         ELSE <<Head(s)>> \o CollapseSpaces(Tail(s))

clean_text(x) ==
    IF x = NaN THEN <<>>
    ELSE CollapseSpaces(Strip(RemovePlus(StripBrackets(Strip(Lower(x))))))

\* all strings over Chars of length at most n
RECURSIVE StringsUpTo(_)
StringsUpTo(n) ==
    IF n = 0 THEN {<<>>}
    ELSE LET shorter == StringsUpTo(n - 1)
         IN  shorter \cup {Append(s, c) : s \in shorter, c \in Chars}

\* ------------------------------------------------------------------------
\* Floating-point cells (pandas float64), as far as the script uses them:
\* a ratio n/d of whole numbers, NaN, or +infinity.  The reports hold no
\* negative number, so -infinity does not arise.
\* ------------------------------------------------------------------------
FNum(n) == [k |-> "num", n |-> n, d |-> 1]

FNaN == [k |-> "nan", n |-> 0, d |-> 1]

FInf == [k |-> "inf", n |-> 0, d |-> 1]

FloatAdd(a, b) ==
    IF a.k = "nan" \/ b.k = "nan" THEN FNaN
    ELSE IF a.k = "inf" \/ b.k = "inf" THEN FInf
    ELSE [k |-> "num", n |-> a.n * b.d + b.n * a.d, d |-> a.d * b.d]

\* float64 division: x/0 is inf for x > 0 and NaN for x = 0
FloatDiv(a, b) ==
    IF a.k = "nan" \/ b.k = "nan" THEN FNaN
    ELSE IF a.k = "inf" THEN (IF b.k = "inf" THEN FNaN ELSE FInf)
    ELSE IF b.k = "inf" THEN FNum(0)
    ELSE IF b.n = 0 THEN (IF a.n = 0 THEN FNaN ELSE FInf)
    ELSE [k |-> "num", n |-> a.n * b.d, d |-> a.d * b.n]

\* Series.fillna(v)
fillna(x, v) == IF x.k = "nan" THEN v ELSE x

\* Series.replace([float("inf")], v)
replace_inf(x, v) == IF x.k = "inf" THEN v ELSE x

\* x > y on floats; every comparison with NaN is false
FloatGreater(x, y) ==
    IF x.k = "nan" \/ y.k = "nan" THEN FALSE
    ELSE IF x.k = "inf" THEN y.k # "inf"
    ELSE IF y.k = "inf" THEN FALSE
    ELSE x.n * y.d > y.n * x.d

Digits == <<"0", "1", "2", "3", "4", "5", "6", "7", "8", "9">>

DigitValue(c) == (CHOOSE v \in 1..10 : Digits[v] = c) - 1

IsDigit(c) == \E v \in 1..10 : Digits[v] = c

RECURSIVE ParseDigits(_)
ParseDigits(s) ==
    IF s = <<>> THEN 0
    ELSE 10 * ParseDigits(SubSeq(s, 1, Len(s) - 1)) + DigitValue(s[Len(s)])

\* pd.to_numeric(cell, errors="coerce"): the number a cell spells, NaN for
\* a missing cell or one that spells no number
to_numeric(cell) ==
    IF cell # NaN /\ cell # <<>> /\ \A p \in 1..Len(cell) : IsDigit(cell[p])
    THEN FNum(ParseDigits(cell))
    ELSE FNaN

\* ------------------------------------------------------------------------
\* Ordering of strings (Python compares strings by code point)
\* ------------------------------------------------------------------------
Ord(c) ==
    CASE c = " " -> 32
      [] c = "\"" -> 34
      [] c = "+" -> 43
      [] c = "A" -> 65
      [] c = "[" -> 91
      [] c = "]" -> 93
      [] c = "a" -> 97
      [] c = "b" -> 98

RECURSIVE StrLess(_, _)
StrLess(s, t) ==
    IF t = <<>> THEN FALSE
    ELSE IF s = <<>> THEN TRUE
    ELSE IF Head(s) = Head(t) THEN StrLess(Tail(s), Tail(t))
    ELSE Ord(Head(s)) < Ord(Head(t))

\* the strings of S in ascending order
RECURSIVE SortStrings(_)
SortStrings(S) ==
    IF S = {} THEN <<>>
    ELSE LET least == CHOOSE x \in S : \A y \in S : x = y \/ StrLess(x, y)
         IN  <<least>> \o SortStrings(S \ {least})

\* ------------------------------------------------------------------------
\* Tables
\* ------------------------------------------------------------------------
Range(s) == {s[p] : p \in DOMAIN s}

\* the distinct values of a sequence in order of first appearance
\* (Series.unique())
RECURSIVE unique(_)
unique(s) ==
    IF s = <<>> THEN <<>>
    ELSE LET front == unique(SubSeq(s, 1, Len(s) - 1))
             last == s[Len(s)]
         IN  IF last \in Range(front) THEN front ELSE Append(front, last)

Column(table, col) == [p \in DOMAIN table |-> table[p][col]]

\* table[table[col] == value]
RowsWhere(table, col, value) == SelectSeq(table, LAMBDA r : r[col] = value)

\* Series.sum() of a column of floats
RECURSIVE SumCol(_, _)
SumCol(table, col) ==
    IF table = <<>> THEN FNum(0)
    ELSE FloatAdd(SumCol(SubSeq(table, 1, Len(table) - 1), col),
                  table[Len(table)][col])

\* pd.concat(dfs, ignore_index=True): the rows of the tables, in order
RECURSIVE ConcatRows(_)
ConcatRows(dfs) ==
    IF dfs = <<>> THEN <<>> ELSE Head(dfs) \o ConcatRows(Tail(dfs))

\* The orders sort_values(by=col, ascending=False) may leave a table in.
\* A sort by one column uses the default kind "quicksort", which is not
\* stable: rows with equal keys come out in an order the sort does not fix.
RECURSIVE DescendingOrders(_, _)
DescendingOrders(table, col) ==
    IF table = <<>> THEN {<<>>}
    ELSE LET top == {p \in DOMAIN table :
                        \A q \in DOMAIN table :
                            ~FloatGreater(table[q][col], table[p][col])}
             without(p) == [q \in 1..(Len(table) - 1) |->
                               IF q < p THEN table[q] ELSE table[q + 1]]
         IN  UNION {{<<table[p]>> \o rest :
                        rest \in DescendingOrders(without(p), col)} : p \in top}

\* sort_values(by=[c1, c2], ascending=[False, False]): a sort by several
\* columns is a stable lexicographic sort, so rows equal in both keys keep
\* their order
RECURSIVE SortDescending2(_, _, _)
SortDescending2(table, c1, c2) ==
    IF table = <<>> THEN <<>>
    ELSE LET before(p, q) ==
                 \/ FloatGreater(table[p][c1], table[q][c1])
                 \/ /\ table[p][c1] = table[q][c1]
                    /\ FloatGreater(table[p][c2], table[q][c2])
             first == CHOOSE p \in DOMAIN table :
                         /\ \A q \in DOMAIN table : ~before(q, p)
                         /\ \A q \in 1..(p - 1) : before(p, q)
             without == [q \in 1..(Len(table) - 1) |->
                            IF q < first THEN table[q] ELSE table[q + 1]]
         IN  <<table[first]>> \o SortDescending2(without, c1, c2)

\* ------------------------------------------------------------------------
\* Uploaded reports
\* ------------------------------------------------------------------------
RawColumns == {"Search term", "Keyword", "Campaign", "Impr.", "Interactions", "Cost"}

RawRow(st, kw, camp, imp, clk, cost) ==
    [c \in RawColumns |->
        CASE c = "Search term" -> st
          [] c = "Keyword" -> kw
          [] c = "Campaign" -> camp
          [] c = "Impr." -> imp
          [] c = "Interactions" -> clk
          [] c = "Cost" -> cost]

\* The data rows the reports are made of.  Search terms and keywords differ
\* in case, brackets and "+" markers; some cells are missing, one metric
\* cell spells no number ("--"); clicks tie, impressions and clicks are 0.
RowPool ==
    { RawRow(<<"A">>, <<"[", "a", "]">>, "c1", <<"2">>, <<"0">>, <<"0">>),
      RawRow(<<"a">>, <<"[", "a", "]">>, "c1", <<"3">>, <<"0">>, <<"2">>),
      RawRow(<<"b">>, <<"[", "a", "]">>, "c1", <<"4">>, <<"2">>, <<"-", "-">>),
      RawRow(<<"b">>, <<"+", "b">>, "c2", <<"0">>, <<"1">>, <<"0">>),
      RawRow(<<"a", " ", "b">>, <<"[", "a", "]">>, "c2", <<"1">>, <<"2">>, <<"1">>),
      RawRow(<<"+">>, NaN, "c2", <<"1">>, <<"1">>, <<"1">>),
      RawRow(NaN, <<"+", "b">>, "c1", <<"1">>, <<"0">>, <<"0">>) }

\* the rows of the reports uploaded several at a time
BatchRows ==
    << RawRow(<<"A">>, <<"[", "a", "]">>, "c1", <<"2">>, <<"0">>, <<"0">>),
       RawRow(<<"+">>, NaN, "c2", <<"1">>, <<"1">>, <<"1">>) >>

\* file names, in upload order
FileNames == <<"f1.csv", "f2.csv", "f3.csv", "f4.csv">>

\* most rows of a report uploaded on its own
MaxRows == 3
\* most reports uploaded at a time
MaxFiles == 3

RECURSIVE TablesUpTo(_, _)
TablesUpTo(rows, n) ==
    IF n = 0 THEN {<<>>}
    ELSE LET shorter == TablesUpTo(rows, n - 1)
         IN  shorter \cup {Append(t, r) : t \in shorter, r \in rows}

\* An uploaded file: its name, whether pd.read_csv(file, skiprows=2) parses
\* it, and the data rows it then returns.
File(name, ok, rows) == [name |-> name, ok |-> ok, rows |-> rows]

\* what a report of a batch holds: nothing parseable, a header and no data
\* row, or the batch rows (one or both)
BatchContents ==
    { [ok |-> FALSE, rows |-> <<>>],
      [ok |-> TRUE, rows |-> <<>>],
      [ok |-> TRUE, rows |-> <<BatchRows[1]>>],
      [ok |-> TRUE, rows |-> <<BatchRows[2]>>],
      [ok |-> TRUE, rows |-> BatchRows] }

RECURSIVE BatchesUpTo(_)
BatchesUpTo(n) ==
    IF n = 0 THEN {<<>>}
    ELSE LET shorter == BatchesUpTo(n - 1)
         IN  shorter \cup
             {Append(b, File(FileNames[Len(b) + 1], c.ok, c.rows)) :
                 b \in {x \in shorter : Len(x) = n - 1}, c \in BatchContents}

\* the uploads: nothing, one report of up to MaxRows rows, or a batch of up
\* to MaxFiles reports
Uploads ==
    {<<File(FileNames[1], TRUE, t)>> : t \in TablesUpTo(RowPool, MaxRows)}
        \cup BatchesUpTo(MaxFiles)

\* ------------------------------------------------------------------------
\* Loading and normalisation
\* ------------------------------------------------------------------------
\* df["account"] = file.name
TagAccount(rows, name) ==
    [p \in DOMAIN rows |-> rows[p] @@ ("account" :> name)]

\* Fault injection: a concat that answers an empty list with an empty table
pd_concat_empty_table(dfs) == [raised |-> "none", value |-> ConcatRows(dfs)]

\* pd.concat(all_dfs, ignore_index=True); it raises ValueError ("No objects
\* to concatenate") when the list is empty
pd_concat(dfs) ==
    IF dfs = <<>>
    THEN [raised |-> "ValueError", value |-> <<>>]
    ELSE [raised |-> "none", value |-> ConcatRows(dfs)]

\* df.rename(columns={...}): headers the mapping does not name are kept
NewName(header) ==
    CASE header = "Search term" -> "search_term"
      [] header = "Keyword" -> "keyword"
      [] header = "Campaign" -> "campaign"
      [] header = "Impr." -> "impressions"
      [] header = "Interactions" -> "clicks"
      [] header = "Cost" -> "cost"
      [] OTHER -> header

rename(row) ==
    [c \in {NewName(h) : h \in DOMAIN row} |->
        row[CHOOSE h \in DOMAIN row : NewName(h) = c]]

NumericColumns == {"impressions", "clicks", "cost"}

\* df[col] = pd.to_numeric(df[col], errors="coerce").fillna(0)
clean_numbers(row) ==
    [c \in DOMAIN row |->
        IF c \in NumericColumns THEN fillna(to_numeric(row[c]), FNum(0))
        ELSE row[c]]

\* df.dropna(subset=["search_term"])
dropna(table, col) == SelectSeq(table, LAMBDA r : r[col] # NaN)

normalize(table) ==
    dropna([p \in DOMAIN table |-> clean_numbers(rename(table[p]))],
           "search_term")

\* ------------------------------------------------------------------------
\* Aggregation
\* ------------------------------------------------------------------------
\* the keys of groupby(col): the distinct values, a missing value left out
\* (dropna=True is the default), in ascending order (sort=True)
GroupKeys(table, col) ==
    SortStrings({r[col] : r \in Range(table)} \ {NaN})

\* Series.nunique()
nunique(table, col) == Cardinality({r[col] : r \in Range(table)} \ {NaN})

\* filtered_df.groupby("keyword").agg(...).reset_index() with CTR and CPC
KeywordRow(table, kw) ==
    LET g == RowsWhere(table, "keyword", kw)
        clicks == SumCol(g, "clicks")
        impressions == SumCol(g, "impressions")
        cost == SumCol(g, "cost")
    IN  [keyword |-> kw,
         total_search_terms |-> FNum(nunique(g, "search_term")),
         total_impressions |-> impressions,
         total_clicks |-> clicks,
         total_cost |-> cost,
         CTR |-> fillna(FloatDiv(clicks, impressions), FNum(0)),
         CPC |-> replace_inf(FloatDiv(cost, clicks), FNum(0))]

KeywordGroups(table) ==
    LET keys == GroupKeys(table, "keyword")
    IN  [p \in DOMAIN keys |-> KeywordRow(table, keys[p])]

\* sub.groupby("search_term").agg(impressions, clicks, cost).reset_index()
TermGroups(table) ==
    LET keys == GroupKeys(table, "search_term")
    IN  [p \in DOMAIN keys |->
            LET g == RowsWhere(table, "search_term", keys[p])
            IN  [search_term |-> keys[p],
                 impressions |-> SumCol(g, "impressions"),
                 clicks |-> SumCol(g, "clicks"),
                 cost |-> SumCol(g, "cost")]]

\* the orders term_details may come in: .sort_values("clicks",
\* ascending=False)
TermDetailsOrders(table) == DescendingOrders(TermGroups(table), "clicks")

\* Fault injection: the uncovered terms are sorted by clicks alone
UncoveredSummary_ByClicks(table) ==
    LET keys == GroupKeys(table, "search_term")
        groups == [p \in DOMAIN keys |->
                      LET g == RowsWhere(table, "search_term", keys[p])
                      IN  [search_term |-> keys[p],
                           total_impressions |-> SumCol(g, "impressions"),
                           total_clicks |-> SumCol(g, "clicks"),
                           total_cost |-> SumCol(g, "cost")]]
    IN  SortDescending2(groups, "total_clicks", "total_clicks")

\* uncovered_df.groupby("search_term").agg(...).reset_index()
\*     .sort_values(by=["total_clicks", "total_impressions"],
\*                  ascending=[False, False])
UncoveredSummary(table) ==
    LET keys == GroupKeys(table, "search_term")
        groups == [p \in DOMAIN keys |->
                      LET g == RowsWhere(table, "search_term", keys[p])
                      IN  [search_term |-> keys[p],
                           total_impressions |-> SumCol(g, "impressions"),
                           total_clicks |-> SumCol(g, "clicks"),
                           total_cost |-> SumCol(g, "cost")]]
    IN  SortDescending2(groups, "total_clicks", "total_impressions")

\* ------------------------------------------------------------------------
\* Gap analysis
\* ------------------------------------------------------------------------
\* filtered_df["search_term_clean"], filtered_df["keyword_clean"]
WithCleanColumns(table) ==
    [p \in DOMAIN table |->
        table[p] @@ ("search_term_clean" :> clean_text(table[p]["search_term"]))
                 @@ ("keyword_clean" :> clean_text(table[p]["keyword"]))]

\* Fault injection: the empty string is kept among the keywords
all_keywords_with_empty(table) == {r["keyword_clean"] : r \in Range(table)}

all_keywords(table) == {r["keyword_clean"] : r \in Range(table)} \ {<<>>}

all_search_terms(table) == {r["search_term_clean"] : r \in Range(table)}

uncovered_terms(table) == all_search_terms(table) \ all_keywords(table)

\* filtered_df[filtered_df["search_term_clean"].isin(uncovered_terms)]
UncoveredRows(table) ==
    SelectSeq(table, LAMBDA r : r["search_term_clean"] \in uncovered_terms(table))

\* filtered_df[["search_term", "keyword", "impressions", "clicks", "cost"]]
MappingColumns == {"search_term", "keyword", "impressions", "clicks", "cost"}

MappingRows(table) ==
    [p \in DOMAIN table |-> [c \in MappingColumns |-> table[p][c]]]

\* ------------------------------------------------------------------------
\* The suggestion service
\* ------------------------------------------------------------------------
\* What the POST to the chat-completions endpoint ends in: how the transport
\* ended, whether the body is JSON, and the JSON value as far as the script
\* looks at it.
Reply(transport, parses, kind, keys, choices) ==
    [transport |-> transport, parses |-> parses, kind |-> kind,
     keys |-> keys, choices |-> choices]

Choice(has_message, has_content) ==
    [has_message |-> has_message, has_content |-> has_content]

NoReply == Reply("none", FALSE, "null", {}, <<>>)

Replies ==
    { Reply("Timeout", FALSE, "null", {}, <<>>),
      Reply("ConnectionError", FALSE, "null", {}, <<>>),
      \* a body that is not JSON
      Reply("ok", FALSE, "null", {}, <<>>),
      \* null
      Reply("ok", TRUE, "null", {}, <<>>),
      \* {"error": {...}}
      Reply("ok", TRUE, "object", {"error"}, <<>>),
      \* {"choices": []}
      Reply("ok", TRUE, "object", {"choices"}, <<>>),
      \* {"choices": [{}]}
      Reply("ok", TRUE, "object", {"choices"}, <<Choice(FALSE, FALSE)>>),
      \* {"choices": [{"message": {}}]}
      Reply("ok", TRUE, "object", {"choices"}, <<Choice(TRUE, FALSE)>>),
      \* {"choices": [{"message": {"content": "..."}}]}
      Reply("ok", TRUE, "object", {"choices"}, <<Choice(TRUE, TRUE)>>) }

Message(kind, text, arg) == [kind |-> kind, text |-> text, arg |-> arg]

\* The body of the try block from requests.post on: the exception it
\* raises, or the message it shows.
ai_request(reply) ==
    LET raise(exc) == [raised |-> exc, shown |-> Message("none", "", "")]
        show(kind, text) == [raised |-> "none", shown |-> Message(kind, text, "")]
    IN  IF reply.transport # "ok" THEN raise(reply.transport)
        ELSE IF ~reply.parses THEN raise("JSONDecodeError")
        ELSE IF reply.kind = "null" THEN raise("TypeError")
        ELSE IF "choices" \in reply.keys
             THEN IF reply.choices = <<>> THEN raise("IndexError")
                  ELSE IF ~reply.choices[1].has_message THEN raise("KeyError")
                  ELSE IF ~reply.choices[1].has_content THEN raise("KeyError")
                  ELSE show("success", "content")
             ELSE show("error", "AI response error")

\* Fault injection: an except clause for the exceptions of requests only
CaughtByExcept_RequestsOnly(exc) == exc \in {"Timeout", "ConnectionError"}

\* except Exception: every exception the try block raises is one
CaughtByExcept(exc) ==
    exc \in {"Timeout", "ConnectionError", "JSONDecodeError", "TypeError",
             "IndexError", "KeyError"}

\* ------------------------------------------------------------------------
\* State
VARIABLES
    uploaded_files,     \* the files of the uploader, in upload order
    loaded,             \* how many of them the loading loop has handled
    all_dfs,            \* the tables read so far
    messages,           \* what st.warning/error/info/success have shown
    df,                 \* the merged table
    account_sel,        \* the account chosen in the sidebar
    campaign_sel,       \* the campaign chosen in the sidebar
    filtered_df,        \* the rows of the chosen scope
    summary,            \* the keyword summary
    chosen_kw,          \* the keyword picked for the detail view
    term_details,       \* its search terms
    uncovered_df,       \* the rows of the scope no keyword covers
    uncovered_summary,  \* those rows by search term
    gap_view,           \* what the gap section shows
    mapping,            \* the search term -> keyword table
    ai_reply,           \* what the suggestion service answered
    pc,                 \* the section of the script to run next
    fault,              \* the exception that ended the run
    ran,                \* the sections that have run
    text,               \* the string given to clean_text on its own
    applied             \* how often clean_text has been applied to it

pipeline == <<uploaded_files, loaded, all_dfs, messages, df, account_sel,
              campaign_sel, filtered_df, summary, chosen_kw, term_details,
              uncovered_df, uncovered_summary, gap_view, mapping, ai_reply,
              pc, fault, ran>>

vars == <<pipeline, text, applied>>

\* no selection made, nothing picked
None == <<"None">>

\* the variables of a run before the script has assigned them
Unassigned ==
    /\ loaded = 0
    /\ all_dfs = <<>>
    /\ messages = <<>>
    /\ df = <<>>
    /\ account_sel = "unset"
    /\ campaign_sel = "unset"
    /\ filtered_df = <<>>
    /\ summary = <<>>
    /\ chosen_kw = None
    /\ term_details = <<>>
    /\ uncovered_df = <<>>
    /\ uncovered_summary = <<>>
    /\ gap_view = "none"
    /\ mapping = <<>>
    /\ ai_reply = NoReply
    /\ pc = "upload"
    /\ fault = "none"
    /\ ran = {}

\* ------------------------------------------------------------------------
\* The text cleaner on its own
\* ------------------------------------------------------------------------
InitClean ==
    /\ text \in StringsUpTo(MaxLen) \cup {NaN}
    /\ applied = 0
    /\ uploaded_files = <<>>
    /\ Unassigned

CleanText ==
    /\ applied < MaxApply
    /\ text' = clean_text(text)
    /\ applied' = applied + 1
    /\ UNCHANGED pipeline

NextClean == CleanText

SpecClean == InitClean /\ [][NextClean]_vars

\* ------------------------------------------------------------------------
\* One run of the script
\* ------------------------------------------------------------------------
Init ==
    /\ uploaded_files \in Uploads
    /\ Unassigned
    /\ text = <<>>
    /\ applied = 0

\* if not uploaded_files: st.warning(...); st.stop()
StopWithoutUpload ==
    /\ pc = "upload"
    /\ uploaded_files = <<>>
    /\ messages' = Append(messages, Message("warning", "Please upload your CSV reports", ""))
    /\ pc' = "stopped"
    /\ UNCHANGED <<uploaded_files, loaded, all_dfs, df, account_sel,
                   campaign_sel, filtered_df, summary, chosen_kw,
                   term_details, uncovered_df, uncovered_summary, gap_view,
                   mapping, ai_reply, fault, ran, text, applied>>

BeginLoading ==
    /\ pc = "upload"
    /\ uploaded_files # <<>>
    /\ pc' = "load"
    /\ UNCHANGED <<uploaded_files, loaded, all_dfs, messages, df, account_sel,
                   campaign_sel, filtered_df, summary, chosen_kw,
                   term_details, uncovered_df, uncovered_summary, gap_view,
                   mapping, ai_reply, fault, ran, text, applied>>

\* one turn of the loop whose read_csv succeeds
ReadFile ==
    /\ pc = "load"
    /\ loaded < Len(uploaded_files)
    /\ LET file == uploaded_files[loaded + 1]
       IN  /\ file.ok
           /\ all_dfs' = Append(all_dfs, TagAccount(file.rows, file.name))
    /\ loaded' = loaded + 1
    /\ UNCHANGED <<uploaded_files, messages, df, account_sel,
                   campaign_sel, filtered_df, summary, chosen_kw,
                   term_details, uncovered_df, uncovered_summary, gap_view,
                   mapping, ai_reply, pc, fault, ran, text, applied>>

\* Fault injection: the first file that fails to parse ends the loop
ReadFileError_EndsLoop ==
    /\ pc = "load"
    /\ loaded < Len(uploaded_files)
    /\ LET file == uploaded_files[loaded + 1]
       IN  /\ ~file.ok
           /\ messages' = Append(messages, Message("error", "Error reading", file.name))
    /\ loaded' = Len(uploaded_files)
    /\ UNCHANGED <<uploaded_files, all_dfs, df, account_sel,
                   campaign_sel, filtered_df, summary, chosen_kw,
                   term_details, uncovered_df, uncovered_summary, gap_view,
                   mapping, ai_reply, pc, fault, ran, text, applied>>

\* one turn of the loop whose read_csv raises: the except clause reports it
ReadFileError ==
    /\ pc = "load"
    /\ loaded < Len(uploaded_files)
    /\ LET file == uploaded_files[loaded + 1]
       IN  /\ ~file.ok
           /\ messages' = Append(messages, Message("error", "Error reading", file.name))
    /\ loaded' = loaded + 1
    /\ UNCHANGED <<uploaded_files, all_dfs, df, account_sel,
                   campaign_sel, filtered_df, summary, chosen_kw,
                   term_details, uncovered_df, uncovered_summary, gap_view,
                   mapping, ai_reply, pc, fault, ran, text, applied>>

\* df = pd.concat(all_dfs, ignore_index=True)
Concat ==
    /\ pc = "load"
    /\ loaded = Len(uploaded_files)
    /\ pd_concat(all_dfs).raised = "none"
    /\ df' = pd_concat(all_dfs).value
    /\ pc' = "normalize"
    /\ ran' = ran \cup {"concat"}
    /\ UNCHANGED <<uploaded_files, loaded, all_dfs, messages, account_sel,
                   campaign_sel, filtered_df, summary, chosen_kw,
                   term_details, uncovered_df, uncovered_summary, gap_view,
                   mapping, ai_reply, fault, text, applied>>

\* pd.concat raises and nothing catches it: the run ends there
ConcatRaises ==
    /\ pc = "load"
    /\ loaded = Len(uploaded_files)
    /\ pd_concat(all_dfs).raised # "none"
    /\ fault' = pd_concat(all_dfs).raised
    /\ pc' = "crashed"
    /\ UNCHANGED <<uploaded_files, loaded, all_dfs, messages, df, account_sel,
                   campaign_sel, filtered_df, summary, chosen_kw,
                   term_details, uncovered_df, uncovered_summary, gap_view,
                   mapping, ai_reply, ran, text, applied>>

\* rename the columns, clean the numbers, drop rows without a search term
Normalize ==
    /\ pc = "normalize"
    /\ df' = normalize(df)
    /\ pc' = "filters"
    /\ ran' = ran \cup {"normalize"}
    /\ UNCHANGED <<uploaded_files, loaded, all_dfs, messages, account_sel,
                   campaign_sel, filtered_df, summary, chosen_kw,
                   term_details, uncovered_df, uncovered_summary, gap_view,
                   mapping, ai_reply, fault, text, applied>>

\* the two select boxes of the sidebar and the rows they leave
SidebarFilters ==
    /\ pc = "filters"
    /\ \E a \in {"All"} \cup Range(unique(Column(df, "account"))) :
          LET by_account == IF a = "All" THEN df ELSE RowsWhere(df, "account", a)
          IN  \E c \in {"All"} \cup Range(unique(Column(by_account, "campaign"))) :
                 /\ account_sel' = a
                 /\ campaign_sel' = c
                 /\ filtered_df' = IF c = "All" THEN by_account
                                   ELSE RowsWhere(by_account, "campaign", c)
    /\ pc' = "summary"
    /\ ran' = ran \cup {"filters"}
    /\ UNCHANGED <<uploaded_files, loaded, all_dfs, messages, df, summary,
                   chosen_kw, term_details, uncovered_df, uncovered_summary,
                   gap_view, mapping, ai_reply, fault, text, applied>>

\* the keyword summary, sorted by the number of distinct search terms
KeywordSummary ==
    /\ pc = "summary"
    /\ summary' \in DescendingOrders(KeywordGroups(filtered_df), "total_search_terms")
    /\ pc' = "detail"
    /\ ran' = ran \cup {"summary"}
    /\ UNCHANGED <<uploaded_files, loaded, all_dfs, messages, df, account_sel,
                   campaign_sel, filtered_df, chosen_kw, term_details,
                   uncovered_df, uncovered_summary, gap_view, mapping,
                   ai_reply, fault, text, applied>>

\* the select box offers the keywords of the summary; the search terms of
\* the one picked
ExactSearchTerms ==
    /\ pc = "detail"
    /\ \E kw \in Range(Column(summary, "keyword")) \ {NaN} :
          /\ chosen_kw' = kw
          /\ term_details' \in TermDetailsOrders(RowsWhere(filtered_df, "keyword", kw))
    /\ pc' = "gap"
    /\ ran' = ran \cup {"detail"}
    /\ UNCHANGED <<uploaded_files, loaded, all_dfs, messages, df, account_sel,
                   campaign_sel, filtered_df, summary, uncovered_df,
                   uncovered_summary, gap_view, mapping, ai_reply, fault,
                   text, applied>>

\* with no keyword to offer the select box returns None and the section
\* shows nothing
NoKeywordToPick ==
    /\ pc = "detail"
    /\ Range(Column(summary, "keyword")) \ {NaN} = {}
    /\ chosen_kw' = None
    /\ pc' = "gap"
    /\ UNCHANGED <<uploaded_files, loaded, all_dfs, messages, df, account_sel,
                   campaign_sel, filtered_df, summary, term_details,
                   uncovered_df, uncovered_summary, gap_view, mapping,
                   ai_reply, fault, ran, text, applied>>

\* The clean columns are added to filtered_df, which is df itself when
\* both selections are "All".
GapColumns ==
    /\ filtered_df' = WithCleanColumns(filtered_df)
    /\ df' = IF account_sel = "All" /\ campaign_sel = "All"
             THEN WithCleanColumns(filtered_df)
             ELSE df
    /\ uncovered_df' = UncoveredRows(WithCleanColumns(filtered_df))

\* uncovered_df.empty: st.info("All search terms are already covered ...")
GapFullyCovered ==
    /\ pc = "gap"
    /\ GapColumns
    /\ uncovered_df' = <<>>
    /\ gap_view' = "fully covered"
    /\ messages' = Append(messages, Message("info", "All search terms are already covered", ""))
    /\ pc' = "mapping"
    /\ ran' = ran \cup {"gap"}
    /\ UNCHANGED <<uploaded_files, loaded, all_dfs, account_sel,
                   campaign_sel, summary, chosen_kw, term_details,
                   uncovered_summary, mapping, ai_reply, fault, text, applied>>

\* else: the aggregated summary and the full detailed list are shown
GapTables ==
    /\ pc = "gap"
    /\ GapColumns
    /\ uncovered_df' # <<>>
    /\ uncovered_summary' = UncoveredSummary(uncovered_df')
    /\ gap_view' = "tables"
    /\ pc' = "mapping"
    /\ ran' = ran \cup {"gap"}
    /\ UNCHANGED <<uploaded_files, loaded, all_dfs, messages, account_sel,
                   campaign_sel, summary, chosen_kw, term_details,
                   mapping, ai_reply, fault, text, applied>>

\* the mapping table, sorted by clicks
Mapping ==
    /\ pc = "mapping"
    /\ mapping' \in DescendingOrders(MappingRows(filtered_df), "clicks")
    /\ pc' = "ai"
    /\ ran' = ran \cup {"mapping"}
    /\ UNCHANGED <<uploaded_files, loaded, all_dfs, messages, df, account_sel,
                   campaign_sel, filtered_df, summary, chosen_kw,
                   term_details, uncovered_df, uncovered_summary, gap_view,
                   ai_reply, fault, text, applied>>

\* the button is not pressed: the run ends
NoInsights ==
    /\ pc = "ai"
    /\ pc' = "done"
    /\ UNCHANGED <<uploaded_files, loaded, all_dfs, messages, df, account_sel,
                   campaign_sel, filtered_df, summary, chosen_kw,
                   term_details, uncovered_df, uncovered_summary, gap_view,
                   mapping, ai_reply, fault, ran, text, applied>>

\* the button is pressed: the request is made inside try/except
GenerateInsights ==
    /\ pc = "ai"
    /\ \E reply \in Replies :
          LET r == ai_request(reply)
          IN  /\ ai_reply' = reply
              /\ IF r.raised = "none"
                 THEN /\ messages' = Append(messages, r.shown)
                      /\ pc' = "done"
                      /\ fault' = fault
                 ELSE IF CaughtByExcept(r.raised)
                 THEN /\ messages' = Append(messages, Message("error", "AI request failed", r.raised))
                      /\ pc' = "done"
                      /\ fault' = fault
                 ELSE /\ messages' = messages
                      /\ pc' = "crashed"
                      /\ fault' = r.raised
    /\ ran' = ran \cup {"ai"}
    /\ UNCHANGED <<uploaded_files, loaded, all_dfs, df, account_sel,
                   campaign_sel, filtered_df, summary, chosen_kw,
                   term_details, uncovered_df, uncovered_summary, gap_view,
                   mapping, text, applied>>

Next ==
    \/ StopWithoutUpload
    \/ BeginLoading
    \/ ReadFile
    \/ ReadFileError
    \/ Concat
    \/ ConcatRaises
    \/ Normalize
    \/ SidebarFilters
    \/ KeywordSummary
    \/ ExactSearchTerms
    \/ NoKeywordToPick
    \/ GapFullyCovered
    \/ GapTables
    \/ Mapping
    \/ NoInsights
    \/ GenerateInsights

Spec == Init /\ [][Next]_vars

\* ------------------------------------------------------------------------
\* Properties of the text cleaner (checked under SpecClean)
\* ------------------------------------------------------------------------

\* C1: clean_text is idempotent: once clean_text has been applied to a
\* string, applying it again changes nothing,
\* clean_text(clean_text(s)) = clean_text(s).
C1_CleanIdempotent ==
    applied = 1 => clean_text(text) = text

SwapCase(c) == IF c = "a" THEN "A" ELSE IF c = "A" THEN "a" ELSE c

InsertAt(s, p, c) == SubSeq(s, 1, p) \o <<c>> \o SubSeq(s, p + 1, Len(s))

\* the strings that differ from s by the case of one letter
CaseVariants(s) == {[s EXCEPT ![p] = SwapCase(s[p])] : p \in DOMAIN s}

\* ... by one more bracket or quote character at the start or at the end
BracketVariants(s) ==
    {<<c>> \o s : c \in BracketChars} \cup {Append(s, c) : c \in BracketChars}

\* ... by one more "+"
PlusVariants(s) == {InsertAt(s, p, "+") : p \in 0..Len(s)}

\* ... by one more blank at the start, at the end or in a run of blanks
SpaceVariants(s) ==
    {InsertAt(s, p, " ") :
        p \in {q \in 0..Len(s) :
                  \/ q = 0
                  \/ q = Len(s)
                  \/ s[q] \in Whitespace
                  \/ s[q + 1] \in Whitespace}}

Variants(s) ==
    CaseVariants(s) \cup BracketVariants(s) \cup PlusVariants(s) \cup SpaceVariants(s)

\* C5: two strings that differ only by letter case, by bracket or quote
\* characters at the ends, by "+" characters or by the length of whitespace
\* runs are cleaned to the same value.
C5_VariantsCleanEqual ==
    (applied = 0 /\ text # NaN) =>
        \A t \in Variants(text) : clean_text(t) = clean_text(text)

\* ------------------------------------------------------------------------
\* Properties of a run of the script (checked under Spec)
\* ------------------------------------------------------------------------
ParsedFiles == SelectSeq(uploaded_files, LAMBDA f : f.ok)

FailedFiles(files) == SelectSeq(files, LAMBDA f : ~f.ok)

\* the rows of the parsed files, each with its file's name, in file order
\* and then row order
RECURSIVE RowsOfParsedFiles(_)
RowsOfParsedFiles(files) ==
    IF files = <<>> THEN <<>>
    ELSE LET f == Head(files)
             rows == IF f.ok
                     THEN [p \in DOMAIN f.rows |-> f.rows[p] @@ ("account" :> f.name)]
                     ELSE <<>>
         IN  rows \o RowsOfParsedFiles(Tail(files))

RECURSIVE RowCount(_)
RowCount(files) ==
    IF files = <<>> THEN 0
    ELSE (IF Head(files).ok THEN Len(Head(files).rows) ELSE 0) + RowCount(Tail(files))

ReadErrors == SelectSeq(messages, LAMBDA m : m.kind = "error" /\ m.text = "Error reading")

\* C6: when at least one file parses, each file that fails to parse is
\* reported by exactly one error and adds no rows, loading goes on with the
\* files after it, and the merged table is the data rows of the parsed
\* files in file order and then row order.
C6_PartialFailure ==
    ParsedFiles # <<>> =>
        /\ pc # "crashed"
        /\ LET failed == FailedFiles(SubSeq(uploaded_files, 1, loaded))
           IN  [p \in DOMAIN ReadErrors |-> ReadErrors[p].arg]
                   = [p \in DOMAIN failed |-> failed[p].name]
        /\ pc = "normalize" =>
              /\ loaded = Len(uploaded_files)
              /\ df = RowsOfParsedFiles(uploaded_files)
              /\ Len(df) = RowCount(uploaded_files)

C6_Witness ==
    /\ pc = "normalize"
    /\ Len(uploaded_files) = 3
    /\ ~uploaded_files[2].ok
    /\ uploaded_files[1].ok /\ uploaded_files[1].rows # <<>>
    /\ uploaded_files[3].ok /\ uploaded_files[3].rows # <<>>
    /\ Len(ReadErrors) = 1
    /\ Len(df) = Len(uploaded_files[1].rows) + Len(uploaded_files[3].rows)

AllFilesFail == uploaded_files # <<>> /\ ParsedFiles = <<>>

\* C7 as stated: when files are uploaded and none of them parses, the
\* loader fails with EmptyInputError, and no later section ever runs.
C7_EmptyInputError ==
    AllFilesFail =>
        /\ ran = {}
        /\ pc \notin {"upload", "load"} => pc = "crashed" /\ fault = "EmptyInputError"

\* C7 as amended: when files are uploaded and none of them parses, the run
\* ends in the ValueError that pd.concat raises for an empty list, which
\* nothing catches, and no later section ever runs.
C7_ConcatValueError ==
    AllFilesFail =>
        /\ ran = {}
        /\ pc \notin {"upload", "load"} => pc = "crashed" /\ fault = "ValueError"

C7_Witness ==
    /\ AllFilesFail
    /\ Len(uploaded_files) >= 2
    /\ pc = "crashed"
    /\ Len(ReadErrors) = Len(uploaded_files)

\* the cleaned keywords of a table, the empty string left out
CleanedKeywords(table) ==
    {clean_text(r["keyword"]) : r \in Range(table)} \ {<<>>}

\* the rows of a table whose cleaned search term is no cleaned keyword of it
RowsNotCovered(table) ==
    SelectSeq(table, LAMBDA r : clean_text(r["search_term"]) \notin CleanedKeywords(table))

\* C2: the uncovered rows are exactly the rows of the scope whose cleaned
\* search term is not among the cleaned keywords of the scope (the empty
\* string is no keyword): none is missing, none is added.
C2_UncoveredExact ==
    "gap" \in ran => uncovered_df = RowsNotCovered(filtered_df)

C2_Witness ==
    /\ "gap" \in ran
    /\ campaign_sel # "All"
    /\ uncovered_df # <<>>
    /\ \E r \in Range(filtered_df) :
          /\ r \notin Range(uncovered_df)
          /\ r["search_term"] # r["keyword"]
    /\ \E r \in Range(uncovered_df) : clean_text(r["search_term"]) = <<>>

\* C3: when the scope has a row with a missing keyword, the keyword summary
\* has a group for the missing keyword whose totals are the sums over those
\* rows.
C3_MissingKeywordGroup ==
    ("summary" \in ran /\ \E r \in Range(filtered_df) : r["keyword"] = NaN) =>
        \E g \in Range(summary) :
            /\ g.keyword = NaN
            /\ LET rows == RowsWhere(filtered_df, "keyword", NaN)
               IN  /\ g.total_clicks = SumCol(rows, "clicks")
                   /\ g.total_impressions = SumCol(rows, "impressions")
                   /\ g.total_cost = SumCol(rows, "cost")

IsZero(x) == x.k = "num" /\ x.n = 0

\* C4: in every row of the keyword summary CTR and CPC are finite and CTR
\* is not negative; CTR is 0 when total_impressions is 0 and CPC is 0 when
\* total_clicks is 0.
C4_RatiosFinite ==
    \A g \in Range(summary) :
        /\ g.CTR.k = "num" /\ g.CTR.n >= 0 /\ g.CTR.d > 0
        /\ g.CPC.k = "num"
        /\ IsZero(g.total_impressions) => IsZero(g.CTR)
        /\ IsZero(g.total_clicks) => IsZero(g.CPC)

\* C8: a scope with at least one row and no uncovered search term is shown
\* as "fully covered", and "fully covered" is shown only for such a scope,
\* never for a scope without rows.
C8_FullyCoveredOnlyWithRows ==
    "gap" \in ran =>
        (gap_view = "fully covered"
            <=> (filtered_df # <<>> /\ RowsNotCovered(filtered_df) = <<>>))

\* the replies the claim counts as failures: the transport failed, the body
\* is not JSON or lacks the content field, or the service reports an error
FailedReply(reply) ==
    \/ reply.transport # "ok"
    \/ ~reply.parses
    \/ reply.kind # "object"
    \/ "choices" \notin reply.keys
    \/ reply.choices = <<>>
    \/ ~reply.choices[1].has_message
    \/ ~reply.choices[1].has_content

Tables == <<summary, term_details, uncovered_df, uncovered_summary, gap_view, mapping>>

\* C9: every failed attempt to get AI suggestions ends with an error
\* message shown and no uncaught exception, and the attempt leaves the
\* tables computed before it as they were.
C9_FailureReported ==
    /\ [](("ai" \in ran /\ FailedReply(ai_reply)) =>
            /\ pc = "done"
            /\ fault = "none"
            /\ messages # <<>>
            /\ messages[Len(messages)].kind = "error")
    /\ [][pc = "ai" => Tables' = Tables]_vars

C9_Witness ==
    /\ "ai" \in ran
    /\ ai_reply.transport = "ok"
    /\ ai_reply.parses
    /\ "choices" \in ai_reply.keys
    /\ ai_reply.choices = <<>>
    /\ pc = "done"
    /\ messages[Len(messages)].kind = "error"
    /\ summary # <<>>
    /\ mapping # <<>>
    /\ gap_view = "tables"

\* rows in descending order of column c1
Descending(table, c1) ==
    \A p, q \in DOMAIN table :
        p < q => ~FloatGreater(table[q][c1], table[p][c1])

\* rows in descending order of c1, rows equal in c1 in descending order of c2
DescendingWithTieBreak(table, c1, c2) ==
    \A p, q \in DOMAIN table :
        p < q =>
            \/ FloatGreater(table[p][c1], table[q][c1])
            \/ /\ table[p][c1] = table[q][c1]
               /\ ~FloatGreater(table[q][c2], table[p][c2])

\* C10 as stated: the keyword-detail table and the summary of uncovered
\* terms are both ordered by summed clicks descending, rows with equal
\* clicks by summed impressions descending.
C10_BothTieBreakByImpressions ==
    /\ "detail" \in ran => DescendingWithTieBreak(term_details, "clicks", "impressions")
    /\ gap_view = "tables" =>
          DescendingWithTieBreak(uncovered_summary, "total_clicks", "total_impressions")

\* C10 as amended: the summary of uncovered terms is ordered by summed
\* clicks descending, rows with equal clicks by summed impressions
\* descending; the keyword-detail table is ordered by summed clicks
\* descending, rows with equal clicks in no particular order.
C10_SortOrders ==
    /\ "detail" \in ran => Descending(term_details, "clicks")
    /\ gap_view = "tables" =>
          DescendingWithTieBreak(uncovered_summary, "total_clicks", "total_impressions")

C10_Witness ==
    /\ gap_view = "tables"
    /\ Len(uncovered_summary) = 2
    /\ uncovered_summary[1].total_clicks = uncovered_summary[2].total_clicks
    /\ FloatGreater(uncovered_summary[1].total_impressions,
                    uncovered_summary[2].total_impressions)
    /\ StrLess(uncovered_summary[2].search_term, uncovered_summary[1].search_term)
    /\ Len(term_details) = 2
    /\ term_details[1].clicks = term_details[2].clicks
    /\ FloatGreater(term_details[2].impressions, term_details[1].impressions)

====
